---- MODULE Spec2Model ----
(***************************************************************************)
(* Model of interprompt/promt_template.py: the multi-language container,   *)
(* the multi-language prompt template, and the prompt collection loader    *)
(* with its queries.                                                       *)
(*                                                                         *)
(* Representation.  A Python str that is a value (a template body, a list  *)
(* item, a language code) is a sequence of tokens; a token is a word, a    *)
(* whitespace character or a {{placeholder}}.  Prompt names (mapping keys) *)
(* are atomic strings.  A Python dict is a sequence of [k, v] records in   *)
(* insertion order.  The outcome of a call is a record with ok, err and    *)
(* the returned value or the new state; err is [exc, kind]: the Python     *)
(* exception class and the error kind of the raise site.                   *)
(***************************************************************************)
EXTENDS Integers, Sequences, FiniteSets, TLC

VARIABLES
    lang2item,      \* _MultiLangContainer._lang2item of a free-standing container
    cres,           \* the last call on that container and its outcome
    mlpt,           \* _lang2item of a MultiLangPromptTemplate's container
    hist,           \* the add_prompt_template calls made on it so far, with outcomes
    dir,            \* the directory listing a PromptCollection is built from
    pc,             \* "init", "ready" (constructed) or "failed" (__init__ raised)
    templates,      \* PromptCollection._multi_lang_prompt_templates
    lists,          \* PromptCollection._multi_lang_prompt_lists
    fallback_mode,  \* PromptCollection.fallback_mode
    loaderr,        \* the error __init__ raised, with file and key where it names them
    res,            \* the last query on the collection and its outcome
    factory,        \* a PromptFactory instance: lang_code and its own PromptCollection
    module          \* the generated prompt factory module: the methods of PromptFactory

vars == <<lang2item, cres, mlpt, hist, dir, pc, templates, lists, fallback_mode, loaderr, res,
          factory, module>>

cvars == <<lang2item, cres>>
mvars == <<mlpt, hist>>
pvars == <<dir, pc, templates, lists, fallback_mode, loaderr, res>>
fvars == <<factory, module>>

----------------------------------------------------------------------------
(* Bounds *)

NumItems == 3
MaxAdds == 3
MaxFiles == 2

----------------------------------------------------------------------------
(* Python dict: insertion-ordered mapping *)

EmptyDict == << >>

Has(d, k) == \E i \in 1..Len(d) : d[i].k = k

IndexOf(d, k) == CHOOSE i \in 1..Len(d) : d[i].k = k

Get(d, k) == d[IndexOf(d, k)].v

\* d[k] = v: an existing key keeps its position, a new key goes last
Put(d, k, v) ==
    IF Has(d, k)
    THEN [d EXCEPT ![IndexOf(d, k)] = [k |-> k, v |-> v]]
    ELSE Append(d, [k |-> k, v |-> v])

Keys(d) == [i \in 1..Len(d) |-> d[i].k]

Values(d) == [i \in 1..Len(d) |-> d[i].v]

KeySet(d) == {d[i].k : i \in 1..Len(d)}

ValueSet(d) == {d[i].v : i \in 1..Len(d)}

----------------------------------------------------------------------------
(* Errors *)

NoErr == [exc |-> "", kind |-> ""]

Err(exc, kind) == [exc |-> exc, kind |-> kind]

NoValue == << >>

----------------------------------------------------------------------------
(* Language codes and fallback modes *)

DEFAULT_LANG_CODE == <<"default">>

EN == <<"en">>
FR == <<"fr">>
DE == <<"de">>

LangCodes == {DEFAULT_LANG_CODE, EN, FR}

AllLangs == LangCodes \cup {DE}

LanguageFallbackMode == {"ANY", "EXCEPTION", "USE_DEFAULT_LANG"}

----------------------------------------------------------------------------
(* _MultiLangContainer *)

get_language_codes(d) == Keys(d)

ContainerLen(d) == Len(d)

\* the duplicate check of add_item (line 91)
add_item_rejects(d, lang_code, allow_overwrite) == ~allow_overwrite /\ Has(d, lang_code)

add_item_always_overwrites(d, item, lang_code, allow_overwrite) ==
    [ok |-> TRUE, err |-> NoErr, d |-> Put(d, lang_code, item)]

add_item_reinserts_last(d, item, lang_code, allow_overwrite) ==
    IF add_item_rejects(d, lang_code, allow_overwrite)
    THEN [ok |-> FALSE, err |-> Err("KeyError", "DuplicateLanguageEntry"), d |-> d]
    ELSE [ok |-> TRUE, err |-> NoErr,
          d |-> Append(SelectSeq(d, LAMBDA e : e.k # lang_code), [k |-> lang_code, v |-> item])]

add_item(d, item, lang_code, allow_overwrite) ==
    IF add_item_rejects(d, lang_code, allow_overwrite)
    THEN [ok |-> FALSE, err |-> Err("KeyError", "DuplicateLanguageEntry"), d |-> d]
    ELSE [ok |-> TRUE, err |-> NoErr, d |-> Put(d, lang_code, item)]

LanguageNotFound == [ok |-> FALSE, err |-> Err("KeyError", "LanguageNotFound"), val |-> NoValue]

Found(item) == [ok |-> TRUE, err |-> NoErr, val |-> item]

get_item_exception_finds_any(d, lang) ==
    IF Len(d) > 0 THEN Found(d[1].v) ELSE LanguageNotFound

\* fallback_mode == EXCEPTION (lines 106-107)
get_item_exception(d, lang) == LanguageNotFound

get_item_any_last(d) ==
    IF Len(d) > 0 THEN Found(d[Len(d)].v) ELSE LanguageNotFound

\* fallback_mode == ANY: next(iter(values)) (lines 108-112)
get_item_any(d) ==
    IF Len(d) > 0 THEN Found(d[1].v) ELSE LanguageNotFound

get_item_default_or_first(d) ==
    IF Has(d, DEFAULT_LANG_CODE) THEN Found(Get(d, DEFAULT_LANG_CODE))
    ELSE IF Len(d) > 0 THEN Found(d[1].v)
    ELSE LanguageNotFound

\* fallback_mode == USE_DEFAULT_LANG (lines 113-119)
get_item_use_default_lang(d) ==
    IF Has(d, DEFAULT_LANG_CODE) THEN Found(Get(d, DEFAULT_LANG_CODE)) ELSE LanguageNotFound

get_item(d, lang, mode) ==
    IF Has(d, lang) THEN Found(Get(d, lang))
    ELSE IF mode = "EXCEPTION" THEN get_item_exception(d, lang)
    ELSE IF mode = "ANY" THEN get_item_any(d)
    ELSE get_item_use_default_lang(d)

----------------------------------------------------------------------------
(* A free-standing container driven through its public methods *)

Items == 1..NumItems

NoCall == [op |-> "none", item |-> 0, lang |-> DEFAULT_LANG_CODE, ow |-> FALSE,
           mode |-> "EXCEPTION", before |-> EmptyDict, ok |-> TRUE, err |-> NoErr, val |-> 0]

CAddItem(item, lang_code, allow_overwrite) ==
    LET r == add_item(lang2item, item, lang_code, allow_overwrite) IN
    /\ lang2item' = r.d
    /\ cres' = [op |-> "add_item", item |-> item, lang |-> lang_code, ow |-> allow_overwrite,
                mode |-> "EXCEPTION", before |-> lang2item, ok |-> r.ok, err |-> r.err, val |-> 0]

CGetItem(lang, mode) ==
    LET r == get_item(lang2item, lang, mode) IN
    /\ lang2item' = lang2item
    /\ cres' = [op |-> "get_item", item |-> 0, lang |-> lang, ow |-> FALSE,
                mode |-> mode, before |-> lang2item, ok |-> r.ok, err |-> r.err,
                val |-> IF r.ok THEN r.val ELSE 0]

ContainerAdd ==
    /\ \E item \in Items, lang_code \in LangCodes, allow_overwrite \in BOOLEAN :
          CAddItem(item, lang_code, allow_overwrite)
    /\ UNCHANGED <<mvars, pvars, fvars>>

ContainerGet ==
    /\ \E lang \in AllLangs, mode \in LanguageFallbackMode : CGetItem(lang, mode)
    /\ UNCHANGED <<mvars, pvars, fvars>>

NoQuery == [op |-> "none"]

NoFactory == [built |-> FALSE, lang_code |-> DEFAULT_LANG_CODE, templates |-> EmptyDict,
              lists |-> EmptyDict, fallback_mode |-> "EXCEPTION"]

NoModule == [written |-> FALSE, methods |-> << >>]

ContainerInit ==
    /\ lang2item = EmptyDict
    /\ cres = NoCall
    /\ mlpt = EmptyDict
    /\ hist = << >>
    /\ dir = << >>
    /\ pc = "init"
    /\ templates = EmptyDict
    /\ lists = EmptyDict
    /\ fallback_mode = "EXCEPTION"
    /\ loaderr = [exc |-> "", kind |-> "", file |-> << >>, key |-> ""]
    /\ res = NoQuery
    /\ factory = NoFactory
    /\ module = NoModule

ContainerNext == ContainerAdd \/ ContainerGet

ContainerSpec == ContainerInit /\ [][ContainerNext]_vars

----------------------------------------------------------------------------
(* Claims about the container, checked under ContainerSpec *)

\* the call just made was add_item on a container that already held an item for its code
AddOnExisting == cres.op = "add_item" /\ Has(cres.before, cres.lang)

\* C5 (as stated): on a container that holds an item for L, add_item without
\* allow_overwrite fails with DuplicateLanguageEntry and changes nothing; with
\* allow_overwrite it succeeds, get_item(L) returns the new item and no get_item
\* call in any fallback mode returns the replaced item.
C5_AsStated ==
    AddOnExisting =>
        IF ~cres.ow
        THEN /\ ~cres.ok
             /\ cres.err.kind = "DuplicateLanguageEntry"
             /\ lang2item = cres.before
        ELSE /\ cres.ok
             /\ get_item(lang2item, cres.lang, "EXCEPTION") = Found(cres.item)
             /\ \A lang \in AllLangs, mode \in LanguageFallbackMode :
                    LET g == get_item(lang2item, lang, mode) IN
                    g.ok => g.val # Get(cres.before, cres.lang)

\* C5 (amended): as above, except that the replaced item is still returned when
\* it is the very item passed to the overwriting call or is also stored under
\* another language code; the entry for L itself holds only the new item, every
\* other entry is untouched and the codes keep their order.
C5_OverwriteReplacesEntry ==
    AddOnExisting =>
        IF ~cres.ow
        THEN /\ ~cres.ok
             /\ cres.err.kind = "DuplicateLanguageEntry"
             /\ lang2item = cres.before
        ELSE /\ cres.ok
             /\ get_language_codes(lang2item) = get_language_codes(cres.before)
             /\ \A mode \in LanguageFallbackMode :
                    get_item(lang2item, cres.lang, mode) = Found(cres.item)
             /\ \A lang \in KeySet(cres.before) \ {cres.lang} :
                    get_item(lang2item, lang, "EXCEPTION")
                        = get_item(cres.before, lang, "EXCEPTION")
             /\ \A lang \in AllLangs, mode \in LanguageFallbackMode :
                    LET g == get_item(lang2item, lang, mode)
                        old == Get(cres.before, cres.lang) IN
                    (g.ok /\ g.val = old) =>
                        \/ old = cres.item
                        \/ \E other \in KeySet(cres.before) \ {cres.lang} :
                              Get(cres.before, other) = old

\* an overwrite with a different item, on a container holding two languages
C5_Witness ==
    /\ AddOnExisting
    /\ cres.ow
    /\ Len(cres.before) >= 2
    /\ Get(cres.before, cres.lang) # cres.item
    /\ Get(cres.before, cres.lang) \notin ValueSet(lang2item)

\* C6: after a successful add_item for L, get_item(L, EXCEPTION) returns exactly
\* the item passed and the outcome for every other code is what it was before,
\* so by induction over the calls each inserted code yields its own item in any
\* insertion order; get_item(L, EXCEPTION) for a code that is not registered
\* fails with LanguageNotFound, and an empty container has no registered code.
C6_ExactLookup ==
    /\ (cres.op = "add_item" /\ cres.ok) =>
          /\ get_item(lang2item, cres.lang, "EXCEPTION") = Found(cres.item)
          /\ \A lang \in AllLangs \ {cres.lang} :
                get_item(lang2item, lang, "EXCEPTION")
                    = get_item(cres.before, lang, "EXCEPTION")
    /\ (cres.op = "add_item" /\ ~cres.ok) => lang2item = cres.before
    /\ (cres.op = "get_item" /\ cres.mode = "EXCEPTION") =>
          /\ lang2item = cres.before
          /\ IF cres.lang \in KeySet(lang2item)
             THEN cres.ok /\ cres.val = Get(lang2item, cres.lang)
             ELSE ~cres.ok /\ cres.err.kind = "LanguageNotFound"
    /\ \A lang \in AllLangs :
          get_item(EmptyDict, lang, "EXCEPTION") = LanguageNotFound

\* an exact lookup of the code inserted second, while another code is missing
C6_Witness ==
    /\ cres.op = "get_item"
    /\ cres.mode = "EXCEPTION"
    /\ cres.ok
    /\ Len(lang2item) >= 2
    /\ cres.lang = lang2item[2].k
    /\ cres.val # lang2item[1].v

\* a failed exact lookup on a container that holds other codes
C6_WitnessMissing ==
    /\ cres.op = "get_item"
    /\ cres.mode = "EXCEPTION"
    /\ ~cres.ok
    /\ Len(lang2item) >= 2

\* C7: get_item(L, ANY) returns the item stored for L when L is registered;
\* otherwise, on a non-empty container, it succeeds and returns the item stored
\* under the first-inserted code; on an empty container it fails.  The first
\* code of the mapping is the first one inserted: the first insertion sets it
\* and no later call changes it.
C7_AnyFallback ==
    /\ (cres.op = "get_item" /\ cres.mode = "ANY") =>
          IF cres.lang \in KeySet(lang2item)
          THEN cres.ok /\ cres.val = Get(lang2item, cres.lang)
          ELSE IF Len(lang2item) > 0
          THEN /\ cres.ok
               /\ cres.val \in ValueSet(lang2item)
               /\ cres.val = Get(lang2item, get_language_codes(lang2item)[1])
          ELSE ~cres.ok
    /\ (cres.op = "add_item" /\ cres.ok /\ Len(cres.before) = 0) =>
          get_language_codes(lang2item) = <<cres.lang>>
    /\ (cres.op = "add_item" /\ Len(cres.before) > 0) =>
          get_language_codes(lang2item)[1] = get_language_codes(cres.before)[1]

\* ANY falls back to the first of two different items
C7_Witness ==
    /\ cres.op = "get_item"
    /\ cres.mode = "ANY"
    /\ cres.lang \notin KeySet(lang2item)
    /\ Len(lang2item) >= 2
    /\ lang2item[1].v # lang2item[2].v
    /\ cres.ok
    /\ cres.val = lang2item[1].v

\* C8: get_item(L, USE_DEFAULT_LANG) returns the item stored for L when L is
\* registered; otherwise the item stored under "default" if there is one, and
\* fails with LanguageNotFound if there is none, even when other codes are
\* registered.
C8_DefaultFallback ==
    (cres.op = "get_item" /\ cres.mode = "USE_DEFAULT_LANG") =>
        IF cres.lang \in KeySet(lang2item)
        THEN cres.ok /\ cres.val = Get(lang2item, cres.lang)
        ELSE IF DEFAULT_LANG_CODE \in KeySet(lang2item)
        THEN cres.ok /\ cres.val = Get(lang2item, DEFAULT_LANG_CODE)
        ELSE ~cres.ok /\ cres.err.kind = "LanguageNotFound"

\* the default entry is returned although another code was inserted first
C8_Witness ==
    /\ cres.op = "get_item"
    /\ cres.mode = "USE_DEFAULT_LANG"
    /\ cres.lang \notin KeySet(lang2item)
    /\ Len(lang2item) >= 2
    /\ lang2item[1].k # DEFAULT_LANG_CODE
    /\ cres.ok
    /\ cres.val = Get(lang2item, DEFAULT_LANG_CODE)
    /\ cres.val # lang2item[1].v

\* C17: get_language_codes() lists each registered code once, in the order of
\* first successful insertion, and the size is the number of distinct codes: an
\* insert of a new code appends it, an overwriting insert and a failed insert
\* leave the list of codes and the size as they were.
C17_CodesInInsertionOrder ==
    LET codes == get_language_codes(lang2item)
        before == get_language_codes(cres.before)
    IN /\ \A i, j \in 1..Len(codes) : codes[i] = codes[j] => i = j
       /\ ContainerLen(lang2item) = Cardinality({codes[i] : i \in 1..Len(codes)})
       /\ cres.op = "add_item" =>
             IF cres.ok /\ ~Has(cres.before, cres.lang)
             THEN /\ codes = Append(before, cres.lang)
                  /\ ContainerLen(lang2item) = ContainerLen(cres.before) + 1
             ELSE /\ codes = before
                  /\ ContainerLen(lang2item) = ContainerLen(cres.before)

\* the first of three registered codes was overwritten with another item
C17_Witness ==
    /\ cres.op = "add_item"
    /\ cres.ok /\ cres.ow
    /\ Len(cres.before) = 3
    /\ cres.before[1].k = cres.lang
    /\ cres.before[1].v # cres.item
    /\ lang2item[1].v = cres.item

\* an insert without allow_overwrite failed on the first of two registered codes
C17_WitnessFailed ==
    /\ cres.op = "add_item"
    /\ ~cres.ok
    /\ Len(cres.before) >= 2
    /\ cres.before[1].k = cres.lang

----------------------------------------------------------------------------
(* str values *)

Whitespace == {" ", "\n", "\t"}

\* str.strip(): drop leading and trailing whitespace
Strip(s) ==
    LET keep == {i \in 1..Len(s) : s[i] \notin Whitespace} IN
    IF keep = {} THEN << >>
    ELSE LET first == CHOOSE i \in keep : \A j \in keep : i <= j
             last == CHOOSE i \in keep : \A j \in keep : j <= i
         IN SubSeq(s, first, last)

SeqToSet(s) == {s[i] : i \in 1..Len(s)}

----------------------------------------------------------------------------
(* The template engine (jinja_template.py): placeholders and parameters *)

Placeholders == {"{{name}}", "{{age}}", "{{lang_code}}", "{{fallback_mode}}"}

VarOf(tok) ==
    CASE tok = "{{name}}" -> "name"
      [] tok = "{{age}}" -> "age"
      [] tok = "{{lang_code}}" -> "lang_code"
      [] tok = "{{fallback_mode}}" -> "fallback_mode"

\* the names a template body references
FreeVars(s) == {VarOf(s[i]) : i \in {j \in 1..Len(s) : s[j] \in Placeholders}}

\* parameter names in their sort order
ParamOrder == <<"age", "fallback_mode", "lang_code", "name">>

\* JinjaTemplate.get_parameters(): the referenced names as a list, in an order
\* fixed by the set alone
JinjaParameters(s) ==
    LET Referenced(p) == p \in FreeVars(s) IN SelectSeq(ParamOrder, Referenced)

----------------------------------------------------------------------------
(* PromptTemplate *)

PromptTemplate(name, jinja_template_string) ==
    [name |-> name,
     body |-> Strip(jinja_template_string),
     params |-> JinjaParameters(Strip(jinja_template_string))]

----------------------------------------------------------------------------
(* MultiLangPromptTemplate *)

FORBIDDEN_PARAM_NAMES == {"lang_code", "fallback_mode"}

Uninitialized == [ok |-> FALSE, err |-> Err("RuntimeError", "UninitializedEntity"), val |-> NoValue]

get_parameters(d) ==
    IF ContainerLen(d) = 0 THEN Uninitialized ELSE Found(d[1].v.params)

add_prompt_template_unchecked_on_overwrite(d, prompt_template, lang_code, allow_overwrite) ==
    LET incoming_parameters == prompt_template.params IN
    IF FORBIDDEN_PARAM_NAMES \cap SeqToSet(incoming_parameters) # {}
    THEN [ok |-> FALSE, err |-> Err("ValueError", "ReservedParameterCollision"), d |-> d]
    ELSE IF /\ ContainerLen(d) > 0
            /\ ~allow_overwrite
            /\ get_parameters(d).val # incoming_parameters
    THEN [ok |-> FALSE, err |-> Err("ValueError", "ParameterSetMismatch"), d |-> d]
    ELSE add_item(d, prompt_template, lang_code, allow_overwrite)

add_prompt_template_duplicate_first(d, prompt_template, lang_code, allow_overwrite) ==
    LET incoming_parameters == prompt_template.params IN
    IF FORBIDDEN_PARAM_NAMES \cap SeqToSet(incoming_parameters) # {}
    THEN [ok |-> FALSE, err |-> Err("ValueError", "ReservedParameterCollision"), d |-> d]
    ELSE IF add_item_rejects(d, lang_code, allow_overwrite)
    THEN add_item(d, prompt_template, lang_code, allow_overwrite)
    ELSE IF ContainerLen(d) > 0 /\ get_parameters(d).val # incoming_parameters
    THEN [ok |-> FALSE, err |-> Err("ValueError", "ParameterSetMismatch"), d |-> d]
    ELSE add_item(d, prompt_template, lang_code, allow_overwrite)

add_prompt_template_mismatch_first(d, prompt_template, lang_code, allow_overwrite) ==
    LET incoming_parameters == prompt_template.params IN
    IF ContainerLen(d) > 0 /\ get_parameters(d).val # incoming_parameters
    THEN [ok |-> FALSE, err |-> Err("ValueError", "ParameterSetMismatch"), d |-> d]
    ELSE IF FORBIDDEN_PARAM_NAMES \cap SeqToSet(incoming_parameters) # {}
    THEN [ok |-> FALSE, err |-> Err("ValueError", "ReservedParameterCollision"), d |-> d]
    ELSE add_item(d, prompt_template, lang_code, allow_overwrite)

add_prompt_template_inserts_before_checks(d, prompt_template, lang_code, allow_overwrite) ==
    LET incoming_parameters == prompt_template.params
        inserted == add_item(d, prompt_template, lang_code, allow_overwrite)
    IN IF FORBIDDEN_PARAM_NAMES \cap SeqToSet(incoming_parameters) # {}
       THEN [ok |-> FALSE, err |-> Err("ValueError", "ReservedParameterCollision"),
             d |-> inserted.d]
       ELSE IF ContainerLen(d) > 0 /\ get_parameters(d).val # incoming_parameters
       THEN [ok |-> FALSE, err |-> Err("ValueError", "ParameterSetMismatch"), d |-> inserted.d]
       ELSE inserted

add_prompt_template(d, prompt_template, lang_code, allow_overwrite) ==
    LET incoming_parameters == prompt_template.params IN
    IF FORBIDDEN_PARAM_NAMES \cap SeqToSet(incoming_parameters) # {}
    THEN [ok |-> FALSE, err |-> Err("ValueError", "ReservedParameterCollision"), d |-> d]
    ELSE IF ContainerLen(d) > 0 /\ get_parameters(d).val # incoming_parameters
    THEN [ok |-> FALSE, err |-> Err("ValueError", "ParameterSetMismatch"), d |-> d]
    ELSE add_item(d, prompt_template, lang_code, allow_overwrite)

get_prompt_template(d, lang_code, mode) == get_item(d, lang_code, mode)

----------------------------------------------------------------------------
(* A free-standing MultiLangPromptTemplate driven through add_prompt_template *)

TemplateStrings ==
    { <<"Hello", " ", "{{name}}">>,
      <<"Hi">>,
      <<"{{name}}", " ", "{{age}}">>,
      <<" ", "{{age}}", " ", "{{name}}", "\n">>,
      <<"{{lang_code}}", " ", "{{name}}">>,
      <<"{{fallback_mode}}">> }

MlptTemplates == {PromptTemplate("greet", t) : t \in TemplateStrings}

MlptLangs == {DEFAULT_LANG_CODE, EN}

MlptAdd ==
    /\ Len(hist) < MaxAdds
    /\ \E prompt_template \in MlptTemplates, lang_code \in MlptLangs, allow_overwrite \in BOOLEAN :
          LET r == add_prompt_template(mlpt, prompt_template, lang_code, allow_overwrite) IN
          /\ mlpt' = r.d
          /\ hist' = Append(hist, [tmpl |-> prompt_template, lang |-> lang_code,
                                   ow |-> allow_overwrite, before |-> mlpt,
                                   ok |-> r.ok, err |-> r.err])
    /\ UNCHANGED <<cvars, pvars, fvars>>

MlptInit == ContainerInit

MlptNext == MlptAdd

MlptSpec == MlptInit /\ [][MlptNext]_vars

----------------------------------------------------------------------------
(* Claims about MultiLangPromptTemplate, checked under MlptSpec *)

ParamSet(prompt_template) == SeqToSet(prompt_template.params)

Succeeded == {i \in 1..Len(hist) : hist[i].ok}

FirstSucceeded == CHOOSE i \in Succeeded : \A j \in Succeeded : i <= j

\* C1: all registered variants have the same parameter set; get_parameters()
\* returns the parameter set of the first successfully added variant; a call is
\* rejected as inconsistent only if its parameter set differs, as a set, from
\* that of the variants registered when it is made.
C1_ParameterSetsConsistent ==
    /\ \A i, j \in 1..Len(mlpt) : ParamSet(mlpt[i].v) = ParamSet(mlpt[j].v)
    /\ (Len(mlpt) = 0) = (Succeeded = {})
    /\ Len(mlpt) = 0 => ~get_parameters(mlpt).ok
    /\ Len(mlpt) > 0 =>
          /\ get_parameters(mlpt).ok
          /\ SeqToSet(get_parameters(mlpt).val) = ParamSet(hist[FirstSucceeded].tmpl)
    /\ \A i \in 1..Len(hist) :
          hist[i].err.kind = "ParameterSetMismatch" =>
              /\ Len(hist[i].before) > 0
              /\ \A k \in 1..Len(hist[i].before) :
                    ParamSet(hist[i].before[k].v) # ParamSet(hist[i].tmpl)

\* two variants whose bodies name the same parameters in a different order are
\* registered, the second by overwriting, after a variant with other parameters
\* was rejected
C1_Witness ==
    /\ Len(hist) = 3
    /\ hist[1].ok /\ hist[3].ok /\ hist[3].ow
    /\ hist[2].err.kind = "ParameterSetMismatch" /\ hist[2].ow
    /\ hist[1].tmpl.body # hist[3].tmpl.body
    /\ Cardinality(ParamSet(hist[1].tmpl)) = 2
    /\ Len(mlpt) = 1

\* C2 (as stated): whenever the first two calls add variants whose parameter
\* sets differ, the second call fails with ParameterSetMismatch.
C2_AsStated ==
    (Len(hist) >= 2 /\ ParamSet(hist[1].tmpl) # ParamSet(hist[2].tmpl)) =>
        ~hist[2].ok /\ hist[2].err.kind = "ParameterSetMismatch"

HasReserved(prompt_template) == ParamSet(prompt_template) \cap FORBIDDEN_PARAM_NAMES # {}

\* C2 (amended): when neither variant declares a reserved parameter name and
\* their parameter sets differ, the first call succeeds and the second fails
\* with ParameterSetMismatch and changes nothing, in either order, whatever
\* the language codes and allow_overwrite values; more generally any call with
\* a variant free of reserved names whose parameter set differs from the
\* registered one fails so.
C2_MismatchRejected ==
    /\ ( /\ Len(hist) >= 2
         /\ ParamSet(hist[1].tmpl) # ParamSet(hist[2].tmpl)
         /\ ~HasReserved(hist[1].tmpl)
         /\ ~HasReserved(hist[2].tmpl) ) =>
            /\ hist[1].ok
            /\ ~hist[2].ok
            /\ hist[2].err = Err("ValueError", "ParameterSetMismatch")
    /\ \A i \in 1..Len(hist) :
          ( /\ Len(hist[i].before) > 0
            /\ ~HasReserved(hist[i].tmpl)
            /\ ParamSet(hist[i].before[1].v) # ParamSet(hist[i].tmpl) ) =>
               /\ ~hist[i].ok
               /\ hist[i].err = Err("ValueError", "ParameterSetMismatch")
               /\ (i < Len(hist) => hist[i + 1].before = hist[i].before)
               /\ (i = Len(hist) => mlpt = hist[i].before)

\* the second call overwrites the language of the first and is still rejected
C2_Witness ==
    /\ Len(hist) >= 2
    /\ hist[1].ok
    /\ hist[2].ow
    /\ hist[2].lang = hist[1].lang
    /\ ~HasReserved(hist[2].tmpl)
    /\ hist[2].err.kind = "ParameterSetMismatch"

\* C15: no registered variant declares a reserved parameter name (lang_code,
\* fallback_mode); add_prompt_template of a template that declares one always
\* fails with ReservedParameterCollision and changes nothing, whether or not
\* other variants are registered and whatever allow_overwrite is.
C15_ReservedRejected ==
    /\ \A k \in 1..Len(mlpt) : ~HasReserved(mlpt[k].v)
    /\ \A i \in 1..Len(hist) :
          HasReserved(hist[i].tmpl) =>
              /\ ~hist[i].ok
              /\ hist[i].err = Err("ValueError", "ReservedParameterCollision")
              /\ (i < Len(hist) => hist[i + 1].before = hist[i].before)
              /\ (i = Len(hist) => mlpt = hist[i].before)

\* a template with a reserved name was rejected on an empty entity, and again
\* with allow_overwrite for the language of a registered variant
C15_Witness ==
    /\ Len(hist) = 3
    /\ HasReserved(hist[1].tmpl) /\ hist[1].before = EmptyDict
    /\ hist[2].ok
    /\ HasReserved(hist[3].tmpl) /\ hist[3].ow /\ hist[3].lang = hist[2].lang
    /\ hist[3].err.kind = "ReservedParameterCollision"
    /\ "fallback_mode" \in ParamSet(hist[1].tmpl)
    /\ "lang_code" \in ParamSet(hist[3].tmpl)

\* the entity as the i-th call left it
AfterCall(i) == IF i < Len(hist) THEN hist[i + 1].before ELSE mlpt

Mismatches(call) ==
    /\ ContainerLen(call.before) > 0
    /\ get_parameters(call.before).val # call.tmpl.params

Duplicates(call) == Has(call.before, call.lang) /\ ~call.ow

\* C18: add_prompt_template checks the reserved names first, then the equality
\* of the parameters with the canonical ones, then inserts (with the container's
\* duplicate-language check), so a call reports the first of these that fails;
\* a call that fails for any of the three leaves the registered codes, every
\* stored variant and the canonical parameters as they were.
C18_ChecksInOrderAndFrame ==
    \A i \in 1..Len(hist) :
        LET call == hist[i] IN
        /\ call.err.kind =
              IF HasReserved(call.tmpl) THEN "ReservedParameterCollision"
              ELSE IF Mismatches(call) THEN "ParameterSetMismatch"
              ELSE IF Duplicates(call) THEN "DuplicateLanguageEntry"
              ELSE ""
        /\ call.ok = (call.err = NoErr)
        /\ ~call.ok =>
              /\ get_language_codes(AfterCall(i)) = get_language_codes(call.before)
              /\ Values(AfterCall(i)) = Values(call.before)
              /\ get_parameters(AfterCall(i)) = get_parameters(call.before)

\* three failing calls on an entity with one variant: the first breaks all
\* three rules and reports the reserved name, the second breaks the last two
\* and reports the mismatch, the third only repeats the language
C18_Witness ==
    /\ Len(hist) = 3 /\ hist[1].ok
    /\ HasReserved(hist[2].tmpl) /\ Mismatches(hist[2]) /\ Duplicates(hist[2])
    /\ hist[2].err.kind = "ReservedParameterCollision"
    /\ ~HasReserved(hist[3].tmpl) /\ Mismatches(hist[3]) /\ Duplicates(hist[3])
    /\ hist[3].err.kind = "ParameterSetMismatch"
    /\ mlpt = hist[2].before

\* a call that only repeats the language fails with DuplicateLanguageEntry
C18_WitnessDuplicate ==
    /\ Len(hist) >= 2
    /\ ~HasReserved(hist[2].tmpl) /\ ~Mismatches(hist[2]) /\ Duplicates(hist[2])
    /\ hist[2].err.kind = "DuplicateLanguageEntry"
    /\ hist[2].tmpl # hist[1].tmpl
    /\ mlpt = hist[2].before

----------------------------------------------------------------------------
(* PromptList *)

StrItem(s) == [t |-> "str", s |-> s]

IntItem == [t |-> "int", s |-> << >>]

\* [x.strip() for x in items]: an element that is no str has no strip()
PromptList(items) ==
    IF \E i \in 1..Len(items) : items[i].t # "str"
    THEN [ok |-> FALSE, err |-> Err("AttributeError", "UnhandledAttributeError"), val |-> NoValue]
    ELSE Found([items |-> [i \in 1..Len(items) |-> Strip(items[i].s)]])

to_string_bullet == <<" ", "*", " ">>

\* " " * len(bullet)
to_string_indent == [i \in 1..Len(to_string_bullet) |-> " "]

\* x.replace("\n", "\n" + indent)
RECURSIVE ReplaceNewlines(_, _)
ReplaceNewlines(s, i) ==
    IF i > Len(s) THEN << >>
    ELSE (IF s[i] = "\n" THEN <<"\n">> \o to_string_indent ELSE <<s[i]>>)
             \o ReplaceNewlines(s, i + 1)

\* sep.join(strs)
RECURSIVE Join(_, _, _)
Join(sep, strs, i) ==
    IF i > Len(strs) THEN << >>
    ELSE (IF i > 1 THEN sep ELSE << >>) \o strs[i] \o Join(sep, strs, i + 1)

\* PromptList.to_string: "\n * ".join(items)
to_string(prompt_list) ==
    LET items == [i \in 1..Len(prompt_list.items) |-> ReplaceNewlines(prompt_list.items[i], 1)]
    IN Join(<<"\n", " ", "*", " ">>, items, 1)

----------------------------------------------------------------------------
(* Source files: the structure yaml.safe_load returns, with the file name *)

StrBody(s) == [kind |-> "str", s |-> s, items |-> << >>]

ListBody(items) == [kind |-> "list", s |-> << >>, items |-> items]

OtherBody == [kind |-> "other", s |-> << >>, items |-> << >>]

NoLang == << >>

Entry(k, v) == [k |-> k, v |-> v]

\* fn: the file name; hasPrompts: the top-level "prompts" key is present;
\* lang: the top-level "lang" field (NoLang when absent); prompts: the mapping
\* under "prompts"
SourceFile(fn, hasPrompts, lang, prompts) ==
    [fn |-> fn, hasPrompts |-> hasPrompts, lang |-> lang, prompts |-> prompts]

Hello == <<"Hello", " ", "{{name}}">>
Bonjour == <<"Bonjour", " ", "{{name}}">>
Hi == <<"Hi", " ", "{{name}}", "\n">>
Tips == <<StrItem(<<"Be", " ", "kind">>), StrItem(<<" ", "Be", " ", "brief", " ">>)>>
Conseils == <<StrItem(<<"Sois", " ", "bref">>), StrItem(<<"Un", "\n", "deux", "\n">>)>>

FileEn == SourceFile(<<"a", ".yaml">>, TRUE, EN, <<Entry("greet", StrBody(Hello))>>)

FileFr == SourceFile(<<"b", ".yaml">>, TRUE, FR, <<Entry("greet", StrBody(Bonjour))>>)

FileDefault ==
    SourceFile(<<"c", ".yml">>, TRUE, NoLang,
               <<Entry("greet", StrBody(Hi)), Entry("tips", ListBody(Tips))>>)

\* the language code given inside the prompts mapping
FileNestedFr ==
    SourceFile(<<"d", ".yaml">>, TRUE, NoLang,
               <<Entry("lang", StrBody(FR)), Entry("greet", StrBody(Bonjour)),
                 Entry("tips", ListBody(Conseils))>>)

FileNoPrompts == SourceFile(<<"e", ".yaml">>, FALSE, EN, << >>)

FileNumber ==
    SourceFile(<<"f", ".yaml">>, TRUE, NoLang,
               <<Entry("farewell", StrBody(<<"Bye">>)), Entry("count", OtherBody)>>)

FileMixedList ==
    SourceFile(<<"g", ".yaml">>, TRUE, NoLang,
               <<Entry("rules", ListBody(<<StrItem(<<"a">>), IntItem>>))>>)

FileText == SourceFile(<<"notes", ".txt">>, FALSE, NoLang, << >>)

FileOtherParams ==
    SourceFile(<<"h", ".yaml">>, TRUE, NoLang,
               <<Entry("lang", StrBody(EN)), Entry("greet", StrBody(<<"Hello", " ", "{{age}}">>))>>)

FileReserved ==
    SourceFile(<<"i", ".yml">>, TRUE, NoLang,
               <<Entry("pick", StrBody(<<"{{lang_code}}">>))>>)

\* a template named like the list of FileDefault
FileTipsTemplate ==
    SourceFile(<<"j", ".yaml">>, TRUE, NoLang,
               <<Entry("lang", StrBody(EN)), Entry("tips", StrBody(<<"Tip", " ", "{{name}}">>))>>)

\* a template named like the list of FileDefault, under the same language code
FileTipsDefault ==
    SourceFile(<<"k", ".yaml">>, TRUE, NoLang,
               <<Entry("tips", StrBody(<<"Tip", " ", "{{name}}">>))>>)

FileUniverse ==
    {FileEn, FileFr, FileDefault, FileNestedFr, FileNoPrompts, FileNumber,
     FileMixedList, FileText, FileOtherParams, FileReserved, FileTipsTemplate,
     FileTipsDefault}

\* os.listdir: the files of a directory, each once, in any order
Listings ==
    {l \in UNION {[1..n -> FileUniverse] : n \in 0..MaxFiles} :
        \A i, j \in 1..Len(l) : i # j => l[i] # l[j]}

----------------------------------------------------------------------------
(* PromptCollection: loading *)

NoFile == << >>

LoadErr(e, file, key) == [exc |-> e.exc, kind |-> e.kind, file |-> file, key |-> key]

NoLoadErr == LoadErr(NoErr, NoFile, "")

EmptyCollection == [ok |-> TRUE, err |-> NoLoadErr, templates |-> EmptyDict, lists |-> EmptyDict]

EndsWith(fn, suffix) == Len(fn) > 0 /\ fn[Len(fn)] = suffix

IsYaml(fn) == EndsWith(fn, ".yml") \/ EndsWith(fn, ".yaml")

\* a loader in which a later file replaces the variant of an earlier one
AddPromptTemplateLastWins(c, name, template_str, lang_code) ==
    LET prompt_template == PromptTemplate(name, template_str)
        registered == IF Has(c.templates, name) THEN c.templates
                      ELSE Put(c.templates, name, EmptyDict)
        r == add_prompt_template(Get(registered, name), prompt_template, lang_code, TRUE)
    IN [ok |-> r.ok,
        err |-> IF r.ok THEN NoLoadErr ELSE LoadErr(r.err, NoFile, name),
        templates |-> Put(registered, name, r.d),
        lists |-> c.lists]

\* _add_prompt_template: the name is registered before the variant is added
AddPromptTemplateToCollection(c, name, template_str, lang_code) ==
    LET prompt_template == PromptTemplate(name, template_str)
        registered == IF Has(c.templates, name) THEN c.templates
                      ELSE Put(c.templates, name, EmptyDict)
        r == add_prompt_template(Get(registered, name), prompt_template, lang_code, FALSE)
    IN [ok |-> r.ok,
        err |-> IF r.ok THEN NoLoadErr ELSE LoadErr(r.err, NoFile, name),
        templates |-> Put(registered, name, r.d),
        lists |-> c.lists]

\* a loader with one namespace: a list may not take the name of a template
AddPromptListSharedNamespace(c, name, prompt_list, lang_code) ==
    LET registered == IF Has(c.lists, name) THEN c.lists
                      ELSE Put(c.lists, name, EmptyDict)
        pl == PromptList(prompt_list)
    IN IF ~pl.ok
       THEN [ok |-> FALSE, err |-> LoadErr(pl.err, NoFile, ""),
             templates |-> c.templates, lists |-> registered]
       ELSE IF Has(c.templates, name)
       THEN [ok |-> FALSE,
             err |-> LoadErr(Err("KeyError", "DuplicateLanguageEntry"), NoFile, name),
             templates |-> c.templates, lists |-> registered]
       ELSE LET r == add_item(Get(registered, name), pl.val, lang_code, FALSE)
            IN [ok |-> r.ok,
                err |-> IF r.ok THEN NoLoadErr ELSE LoadErr(r.err, NoFile, name),
                templates |-> c.templates,
                lists |-> Put(registered, name, r.d)]

\* _add_prompt_list: the name is registered, then PromptList(...) is built and added
AddPromptListToCollection(c, name, prompt_list, lang_code) ==
    LET registered == IF Has(c.lists, name) THEN c.lists
                      ELSE Put(c.lists, name, EmptyDict)
        pl == PromptList(prompt_list)
    IN IF ~pl.ok
       THEN [ok |-> FALSE, err |-> LoadErr(pl.err, NoFile, ""),
             templates |-> c.templates, lists |-> registered]
       ELSE LET r == add_item(Get(registered, name), pl.val, lang_code, FALSE)
            IN [ok |-> r.ok,
                err |-> IF r.ok THEN NoLoadErr ELSE LoadErr(r.err, NoFile, name),
                templates |-> c.templates,
                lists |-> Put(registered, name, r.d)]

\* prompts_data.get("lang", DEFAULT_LANG_CODE)
LangCodeOf(file) ==
    IF Has(file.prompts, "lang") THEN Get(file.prompts, "lang").s ELSE DEFAULT_LANG_CODE

\* the body of the loop over prompts_data.items()
LoadEntry(c, file, name, body) ==
    IF body.kind = "list"
    THEN AddPromptListToCollection(c, name, body.items, LangCodeOf(file))
    ELSE IF body.kind = "str"
    THEN AddPromptTemplateToCollection(c, name, body.s, LangCodeOf(file))
    ELSE [c EXCEPT !.ok = FALSE,
                   !.err = LoadErr(Err("ValueError", "MalformedSource"), file.fn, name)]

RECURSIVE LoadEntries(_, _, _)
LoadEntries(c, file, i) ==
    IF ~c.ok \/ i > Len(file.prompts) THEN c
    ELSE LoadEntries(LoadEntry(c, file, file.prompts[i].k, file.prompts[i].v), file, i + 1)

\* a loader that skips a file it cannot load whole
LoadFileBestEffort(c, file) ==
    IF ~IsYaml(file.fn) \/ ~file.hasPrompts THEN c
    ELSE LET r == LoadEntries(c, file, 1) IN IF r.ok THEN r ELSE c

\* one iteration of the loop over os.listdir(prompts_dir)
LoadFile(c, file) ==
    IF ~IsYaml(file.fn) THEN c
    ELSE IF ~file.hasPrompts
    THEN [c EXCEPT !.ok = FALSE,
                   !.err = LoadErr(Err("KeyError", "MalformedSource"), file.fn, "")]
    ELSE LoadEntries(c, file, 1)

RECURSIVE LoadFiles(_, _, _)
LoadFiles(c, listing, i) ==
    IF ~c.ok \/ i > Len(listing) THEN c
    ELSE LoadFiles(LoadFile(c, listing[i]), listing, i + 1)

_load_from_disc(listing) == LoadFiles(EmptyCollection, listing, 1)

\* PromptCollection.__init__
Construct ==
    /\ pc = "init"
    /\ \E mode \in LanguageFallbackMode :
          LET c == _load_from_disc(dir) IN
          /\ templates' = c.templates
          /\ lists' = c.lists
          /\ loaderr' = c.err
          /\ IF c.ok
             THEN pc' = "ready" /\ fallback_mode' = mode
             ELSE pc' = "failed" /\ fallback_mode' = fallback_mode
    /\ UNCHANGED <<dir, res, cvars, mvars, fvars>>

----------------------------------------------------------------------------
(* The template engine: rendering *)

EmptyKwargs == [p \in {} |-> << >>]

KwargsUniverse == {EmptyKwargs, [p \in {"name"} |-> <<"Alice">>]}

RECURSIVE Substitute(_, _, _)
Substitute(body, kwargs, i) ==
    IF i > Len(body) THEN << >>
    ELSE (IF body[i] \in Placeholders THEN kwargs[VarOf(body[i])] ELSE <<body[i]>>)
             \o Substitute(body, kwargs, i + 1)

\* PromptTemplate.render(**kwargs): a referenced variable that is not bound is
\* an error of the engine
Render(prompt_template, kwargs) ==
    IF ~(ParamSet(prompt_template) \subseteq DOMAIN kwargs)
    THEN [ok |-> FALSE, err |-> Err("UndefinedError", "MissingRenderVariable"), val |-> NoValue]
    ELSE Found(Substitute(prompt_template.body, kwargs, 1))

----------------------------------------------------------------------------
(* PromptCollection: queries *)

EntityNotFound == [ok |-> FALSE, err |-> Err("KeyError", "EntityNotFound"), val |-> NoValue]

get_prompt_template_names(ts) == Keys(ts)

get_prompt_list_names(ls) == Keys(ls)

get_multilang_prompt_template(ts, prompt_name) ==
    IF Has(ts, prompt_name) THEN Found(Get(ts, prompt_name)) ELSE EntityNotFound

get_multilang_prompt_list(ls, prompt_name) ==
    IF Has(ls, prompt_name) THEN Found(Get(ls, prompt_name)) ELSE EntityNotFound

\* PromptCollection.get_prompt_template: passes fallback_mode=self.fallback_mode
collection_get_prompt_template(ts, mode, prompt_name, lang_code) ==
    LET m == get_multilang_prompt_template(ts, prompt_name) IN
    IF ~m.ok THEN m ELSE get_prompt_template(m.val, lang_code, mode)

get_prompt_template_parameters(ts, prompt_name) ==
    LET m == get_multilang_prompt_template(ts, prompt_name) IN
    IF ~m.ok THEN m ELSE get_parameters(m.val)

\* PromptCollection.get_prompt_list: get_item(lang_code), fallback mode defaulted
get_prompt_list(ls, mode, prompt_name, lang_code) ==
    LET m == get_multilang_prompt_list(ls, prompt_name) IN
    IF ~m.ok THEN m ELSE get_item(m.val, lang_code, "EXCEPTION")

render_prompt_template(ts, mode, prompt_name, lang_code, kwargs) ==
    LET t == collection_get_prompt_template(ts, mode, prompt_name, lang_code) IN
    IF ~t.ok THEN t ELSE Render(t.val, kwargs)

QueryNames == {"greet", "tips", "nope"}

Answer(op, prompt_name, lang_code, kwargs, r) ==
    [op |-> op, name |-> prompt_name, lang |-> lang_code, kwargs |-> kwargs,
     mode |-> fallback_mode, ok |-> r.ok, err |-> r.err, val |-> r.val]

\* a get_item that stores the item it fell back to under the requested code
QueryFrameMemoisesFallback ==
    /\ templates' =
          IF /\ res'.op \in {"get_prompt_template", "render_prompt_template"}
             /\ res'.ok
             /\ ~Has(Get(templates, res'.name), res'.lang)
          THEN Put(templates, res'.name,
                   Put(Get(templates, res'.name), res'.lang,
                       get_item(Get(templates, res'.name), res'.lang, fallback_mode).val))
          ELSE templates
    /\ UNCHANGED <<dir, pc, lists, fallback_mode, loaderr, cvars, mvars, fvars>>

QueryFrame ==
    UNCHANGED <<dir, pc, templates, lists, fallback_mode, loaderr, cvars, mvars, fvars>>

GetPromptTemplateNames ==
    /\ pc = "ready"
    /\ res' = Answer("get_prompt_template_names", "", NoLang, EmptyKwargs,
                     Found(get_prompt_template_names(templates)))
    /\ QueryFrame

GetPromptListNames ==
    /\ pc = "ready"
    /\ res' = Answer("get_prompt_list_names", "", NoLang, EmptyKwargs,
                     Found(get_prompt_list_names(lists)))
    /\ QueryFrame

GetPromptTemplate ==
    /\ pc = "ready"
    /\ \E prompt_name \in QueryNames, lang_code \in AllLangs :
          res' = Answer("get_prompt_template", prompt_name, lang_code, EmptyKwargs,
                        collection_get_prompt_template(templates, fallback_mode,
                                                       prompt_name, lang_code))
    /\ QueryFrame

GetPromptTemplateParameters ==
    /\ pc = "ready"
    /\ \E prompt_name \in QueryNames :
          res' = Answer("get_prompt_template_parameters", prompt_name, NoLang, EmptyKwargs,
                        get_prompt_template_parameters(templates, prompt_name))
    /\ QueryFrame

GetPromptList ==
    /\ pc = "ready"
    /\ \E prompt_name \in QueryNames, lang_code \in AllLangs :
          res' = Answer("get_prompt_list", prompt_name, lang_code, EmptyKwargs,
                        get_prompt_list(lists, fallback_mode, prompt_name, lang_code))
    /\ QueryFrame

RenderPromptTemplate ==
    /\ pc = "ready"
    /\ \E prompt_name \in QueryNames, lang_code \in AllLangs, kwargs \in KwargsUniverse :
          res' = Answer("render_prompt_template", prompt_name, lang_code, kwargs,
                        render_prompt_template(templates, fallback_mode,
                                               prompt_name, lang_code, kwargs))
    /\ QueryFrame

\* get_prompt_list(prompt_name, lang_code).to_string()
get_prompt_list_to_string(ls, mode, prompt_name, lang_code) ==
    LET l == get_prompt_list(ls, mode, prompt_name, lang_code) IN
    IF ~l.ok THEN l ELSE Found(to_string(l.val))

GetPromptListToString ==
    /\ pc = "ready"
    /\ \E prompt_name \in QueryNames, lang_code \in AllLangs :
          res' = Answer("to_string", prompt_name, lang_code, EmptyKwargs,
                        get_prompt_list_to_string(lists, fallback_mode, prompt_name, lang_code))
    /\ QueryFrame

----------------------------------------------------------------------------
(* PromptFactoryBase and the generated PromptFactory *)

\* PromptFactoryBase.__init__: lang_code and the factory's own PromptCollection,
\* loaded from the directory with the fallback mode passed on (line 335)
PromptFactoryBase(listing, lang_code, mode) ==
    LET c == _load_from_disc(listing) IN
    [built |-> c.ok, lang_code |-> lang_code, templates |-> c.templates,
     lists |-> c.lists, fallback_mode |-> mode]

factory_render_prompt_default_lang(f, prompt_name, kwargs) ==
    render_prompt_template(f.templates, f.fallback_mode, prompt_name,
                           DEFAULT_LANG_CODE, kwargs)

\* PromptFactoryBase._render_prompt
factory_render_prompt(f, prompt_name, kwargs) ==
    render_prompt_template(f.templates, f.fallback_mode, prompt_name, f.lang_code, kwargs)

\* PromptFactoryBase._get_prompt_list
factory_get_prompt_list(f, prompt_name) ==
    get_prompt_list(f.lists, f.fallback_mode, prompt_name, f.lang_code)

\* def create_<template_name>(self, *, <param>: Any, ...) -> str:
\*     return self._render_prompt("<template_name>", <param>=<param>, ...)
CreateMethod(template_name, template_parameters) ==
    [prefix |-> "create_", name |-> template_name, keyword_only |-> template_parameters,
     calls |-> "_render_prompt", prompt_name |-> template_name, passes |-> template_parameters]

\* def get_list_<prompt_list_name>(self) -> PromptList:
\*     return self._get_prompt_list('<prompt_list_name>')
GetListMethod(prompt_list_name) ==
    [prefix |-> "get_list_", name |-> prompt_list_name, keyword_only |-> << >>,
     calls |-> "_get_prompt_list", prompt_name |-> prompt_list_name, passes |-> << >>]

\* autogenerate_prompt_factory_module: the methods of the generated class, in
\* the order they are written; it loads its own PromptCollection(prompts_dir)
autogenerate_prompt_factory_module(listing) ==
    LET c == _load_from_disc(listing)
        tn == get_prompt_template_names(c.templates)
        ln == get_prompt_list_names(c.lists)
    IN [written |-> c.ok,
        methods |->
            IF ~c.ok THEN << >>
            ELSE [i \in 1..Len(tn) |->
                     CreateMethod(tn[i], get_prompt_template_parameters(c.templates, tn[i]).val)]
                 \o [i \in 1..Len(ln) |-> GetListMethod(ln[i])]]

\* a call of a generated method with its keyword arguments bound
CallMethod(f, method, bindings) ==
    IF method.calls = "_render_prompt"
    THEN factory_render_prompt(f, method.prompt_name,
                               [p \in SeqToSet(method.passes) |-> bindings[p]])
    ELSE factory_get_prompt_list(f, method.prompt_name)

BindingValues == {<<"Alice">>}

\* autogenerate_prompt_factory_module(prompts_dir, target_module_path); a
\* failing load raises and nothing is written
Generate ==
    /\ ~module.written
    /\ module' = autogenerate_prompt_factory_module(dir)
    /\ UNCHANGED <<factory, pvars, cvars, mvars>>

\* PromptFactory(prompts_dir, lang_code, fallback_mode); a failing load raises
\* and there is no factory
BuildFactory ==
    /\ ~factory.built
    /\ \E lang_code \in AllLangs, mode \in LanguageFallbackMode :
          LET f == PromptFactoryBase(dir, lang_code, mode) IN
          factory' = IF f.built THEN f ELSE NoFactory
    /\ UNCHANGED <<module, pvars, cvars, mvars>>

\* factory.<method>(**bindings), the keyword arguments being those of its signature
CallGeneratedMethod ==
    /\ module.written
    /\ factory.built
    /\ \E i \in 1..Len(module.methods) :
          LET method == module.methods[i] IN
          \E bindings \in [SeqToSet(method.keyword_only) -> BindingValues] :
              res' = [Answer(method.prefix, method.name, factory.lang_code, bindings,
                             CallMethod(factory, method, bindings))
                         EXCEPT !.mode = factory.fallback_mode]
    /\ QueryFrame

\* collection.fallback_mode = mode
SetFallbackMode ==
    /\ pc = "ready"
    /\ \E mode \in LanguageFallbackMode : fallback_mode' = mode
    /\ UNCHANGED <<dir, pc, templates, lists, loaderr, res, cvars, mvars, fvars>>

Init ==
    /\ lang2item = EmptyDict
    /\ cres = NoCall
    /\ mlpt = EmptyDict
    /\ hist = << >>
    /\ dir \in Listings
    /\ pc = "init"
    /\ templates = EmptyDict
    /\ lists = EmptyDict
    /\ fallback_mode = "EXCEPTION"
    /\ loaderr = NoLoadErr
    /\ res = NoQuery
    /\ factory = NoFactory
    /\ module = NoModule

Next ==
    \/ Construct
    \/ GetPromptTemplateNames
    \/ GetPromptListNames
    \/ GetPromptTemplate
    \/ GetPromptTemplateParameters
    \/ GetPromptList
    \/ RenderPromptTemplate
    \/ GetPromptListToString
    \/ SetFallbackMode

Spec == Init /\ [][Next]_vars

\* the generated factory next to a collection built directly from the directory
FactoryNext ==
    \/ Construct
    \/ Generate
    \/ BuildFactory
    \/ CallGeneratedMethod

FactorySpec == Init /\ [][FactoryNext]_vars

----------------------------------------------------------------------------
(* Claims about PromptCollection, checked under Spec *)

\* the positions <<f, e>> of the prompt entries of the eligible files of dir
EligibleFiles == {f \in 1..Len(dir) : IsYaml(dir[f].fn)}

EntryPositions ==
    UNION {{<<f, e>> : e \in 1..Len(dir[f].prompts)} :
              f \in {g \in EligibleFiles : dir[g].hasPrompts}}

EntryAt(p) == dir[p[1]].prompts[p[2]]

\* the entry at p is held by the index of its shape under the language code lang
RegisteredUnder(p, lang) ==
    LET e == EntryAt(p) IN
    IF e.v.kind = "str"
    THEN /\ Has(templates, e.k)
         /\ Has(Get(templates, e.k), lang)
         /\ Get(Get(templates, e.k), lang).body = Strip(e.v.s)
    ELSE /\ e.v.kind = "list"
         /\ Has(lists, e.k)
         /\ Has(Get(lists, e.k), lang)
         /\ Get(Get(lists, e.k), lang) = PromptList(e.v.items).val

\* C3 (as stated): every prompt entry of a file that declares a language code L
\* in its language-code field is registered under L, and not under "default"
\* unless L is "default"; a directory of the two files a.yaml (lang: en) and b.yaml
\* (lang: fr), both defining greet with the parameter name, loads, and
\* rendering greet with lang_code fr and name=Alice gives "Bonjour Alice".
C3_AsStated ==
    /\ pc = "ready" =>
          \A p \in EntryPositions :
              LET L == dir[p[1]].lang IN
              L # NoLang =>
                  /\ RegisteredUnder(p, L)
                  /\ (L # DEFAULT_LANG_CODE => ~RegisteredUnder(p, DEFAULT_LANG_CODE))
    /\ (pc # "init" /\ dir \in {<<FileEn, FileFr>>, <<FileFr, FileEn>>}) =>
          /\ pc = "ready"
          /\ render_prompt_template(templates, fallback_mode, "greet", FR,
                                    [p \in {"name"} |-> <<"Alice">>])
                = Found(<<"Bonjour", " ", "Alice">>)

\* C4 (as stated): for a registered name whose requested language is absent,
\* get_prompt_template, render_prompt_template and get_prompt_list resolve the
\* variant as the container's get_item does under the fallback_mode the
\* collection had when the call was made.
C4_AsStated ==
    /\ ( /\ res.op \in {"get_prompt_template", "render_prompt_template"}
         /\ Has(templates, res.name)
         /\ ~Has(Get(templates, res.name), res.lang) ) =>
            LET g == get_item(Get(templates, res.name), res.lang, res.mode) IN
            IF ~g.ok THEN ~res.ok /\ res.err = g.err
            ELSE IF res.op = "get_prompt_template" THEN res.ok /\ res.val = g.val
            ELSE Render(g.val, res.kwargs) = [ok |-> res.ok, err |-> res.err, val |-> res.val]
    /\ ( /\ res.op = "get_prompt_list"
         /\ Has(lists, res.name)
         /\ ~Has(Get(lists, res.name), res.lang) ) =>
            get_item(Get(lists, res.name), res.lang, res.mode)
                = [ok |-> res.ok, err |-> res.err, val |-> res.val]

\* what makes a directory listing fail to load
MissingPrompts == \E f \in EligibleFiles : ~dir[f].hasPrompts

OtherShape == \E p \in EntryPositions : EntryAt(p).v.kind = "other"

NonStringItem ==
    \E p \in EntryPositions :
        /\ EntryAt(p).v.kind = "list"
        /\ \E i \in 1..Len(EntryAt(p).v.items) : EntryAt(p).v.items[i].t # "str"

ReservedParameter ==
    \E p \in EntryPositions :
        /\ EntryAt(p).v.kind = "str"
        /\ FreeVars(EntryAt(p).v.s) \cap FORBIDDEN_PARAM_NAMES # {}

ParameterMismatch ==
    \E p, q \in EntryPositions :
        /\ EntryAt(p).v.kind = "str" /\ EntryAt(q).v.kind = "str"
        /\ EntryAt(p).k = EntryAt(q).k
        /\ FreeVars(EntryAt(p).v.s) # FreeVars(EntryAt(q).v.s)

DuplicateLanguage ==
    \E p, q \in EntryPositions :
        /\ p # q
        /\ EntryAt(p).v.kind = EntryAt(q).v.kind
        /\ EntryAt(p).k = EntryAt(q).k
        /\ LangCodeOf(dir[p[1]]) = LangCodeOf(dir[q[1]])

Defective ==
    \/ MissingPrompts \/ OtherShape \/ NonStringItem
    \/ ReservedParameter \/ ParameterMismatch \/ DuplicateLanguage

\* C9: loading is all-or-nothing.  A listing with a file lacking the prompts
\* mapping, a malformed entry or a failing insertion ends construction in an
\* error and no query is ever answered for it; a constructed collection comes
\* from a listing without any of these and holds every entry of every eligible
\* file under the language code the loader read for the file.
C9_AllOrNothing ==
    /\ (pc # "init" /\ Defective) =>
          /\ pc = "failed"
          /\ loaderr.exc # ""
          /\ res = NoQuery
    /\ pc = "ready" =>
          /\ ~Defective
          /\ loaderr = NoLoadErr
          /\ \A p \in EntryPositions : RegisteredUnder(p, LangCodeOf(dir[p[1]]))
    /\ pc = "failed" => Defective /\ res = NoQuery
    /\ res # NoQuery => pc = "ready"

\* construction failed on the second file, after the first was inserted whole
C9_Witness ==
    /\ pc = "failed"
    /\ Len(dir) = 2
    /\ Len(templates) > 0
    /\ dir[1].hasPrompts /\ IsYaml(dir[1].fn)
    /\ loaderr.kind \in {"DuplicateLanguageEntry", "ParameterSetMismatch"}

\* a collection built from two eligible files answers a query
C9_WitnessReady ==
    /\ pc = "ready"
    /\ Cardinality(EligibleFiles) = 2
    /\ res # NoQuery

\* the shape problem the loader meets first, if it meets one before any other failure
InsertionFailure ==
    loaderr.kind \in {"DuplicateLanguageEntry", "ParameterSetMismatch", "ReservedParameterCollision"}

\* C10 (as stated): a list of strings goes to the list index only, a string to
\* the template index only; when the load fails for another reason than an
\* insertion (a body of another shape, a list with a non-string element, a
\* missing prompts mapping) the error is MalformedSource and names the file,
\* and the key when an entry is at fault.
C10_AsStated ==
    /\ pc = "ready" =>
          \A p \in EntryPositions :
              LET e == EntryAt(p) lang == LangCodeOf(dir[p[1]]) IN
              /\ e.v.kind = "list" =>
                    /\ RegisteredUnder(p, lang)
                    /\ Has(templates, e.k) =>
                          \E q \in EntryPositions : EntryAt(q).k = e.k /\ EntryAt(q).v.kind = "str"
              /\ e.v.kind = "str" =>
                    /\ RegisteredUnder(p, lang)
                    /\ Has(lists, e.k) =>
                          \E q \in EntryPositions : EntryAt(q).k = e.k /\ EntryAt(q).v.kind = "list"
    /\ (pc = "failed" /\ ~InsertionFailure) =>
          /\ loaderr.kind = "MalformedSource"
          /\ loaderr.file # NoFile
          /\ (~MissingPrompts => loaderr.key # "")

\* the listings that enumerate the files of dir in another order
Reorderings ==
    LET n == Len(dir)
        bijections == {f \in [1..n -> 1..n] : \A i, j \in 1..n : i # j => f[i] # f[j]}
    IN {[i \in 1..n |-> dir[f[i]]] : f \in bijections}

\* the association (name, language code) -> item an index holds
Association(index) ==
    UNION {{<<index[i].k, index[i].v[j].k, index[i].v[j].v>> : j \in 1..Len(index[i].v)} :
              i \in 1..Len(index)}

\* C11: for the files of dir, loading succeeds in every enumeration order or in
\* none, and when it succeeds every order yields the same association
\* (name, language code) -> item in the template index and in the list index.
C11_OrderIndependent ==
    pc # "init" =>
        \A listing \in Reorderings :
            LET c == _load_from_disc(listing) IN
            /\ c.ok = (pc = "ready")
            /\ c.ok => /\ Association(c.templates) = Association(templates)
                       /\ Association(c.lists) = Association(lists)

\* two files were loaded and the other order inserts the names in another order
C11_Witness ==
    /\ pc = "ready"
    /\ Cardinality(EligibleFiles) = 2
    /\ \E listing \in Reorderings :
          /\ listing # dir
          /\ get_prompt_template_names(_load_from_disc(listing).templates)
                # get_prompt_template_names(templates)

\* a failed load whose other order fails on another error
C11_WitnessFailed ==
    /\ pc = "failed"
    /\ \E listing \in Reorderings : _load_from_disc(listing).err.kind # loaderr.kind

\* dir with only the entries of one shape kept in each file; the "lang" entry,
\* which gives the file's language code, is always kept
KeepEntries(file, kind) ==
    LET Kept(e) == e.v.kind # kind \/ e.k = "lang" IN
    [file EXCEPT !.prompts = SelectSeq(file.prompts, Kept)]

\* the listing without its list entries, and without its template entries
WithoutLists == [f \in 1..Len(dir) |-> KeepEntries(dir[f], "list")]
WithoutTemplates == [f \in 1..Len(dir) |-> KeepEntries(dir[f], "str")]

\* the names of the entries of one shape, each once, in the order the loader meets them
NamesOfKind(kind) ==
    LET at == {p \in EntryPositions : EntryAt(p).v.kind = kind}
        names == {EntryAt(p).k : p \in at}
        Before(p, q) == p[1] < q[1] \/ (p[1] = q[1] /\ p[2] < q[2])
        First(n) == CHOOSE p \in at : /\ EntryAt(p).k = n
                                      /\ \A q \in at : EntryAt(q).k = n => (q = p \/ Before(p, q))
    IN CHOOSE s \in [1..Cardinality(names) -> names] :
           \A i, j \in 1..Cardinality(names) : i < j => Before(First(s[i]), First(s[j]))

\* C12: template names and list names are independent namespaces.  The
\* template index of a constructed collection is the one the listing without
\* its list entries gives, the list index the one the listing without its
\* template entries gives, and a listing loads whenever both of these load;
\* get_prompt_template_names() is the names with a string body and
\* get_prompt_list_names() the names with a list body, in first-insertion order.
C12_IndependentNamespaces ==
    /\ pc # "init" =>
          LET t == _load_from_disc(WithoutLists)
              l == _load_from_disc(WithoutTemplates)
          IN /\ (t.ok /\ l.ok) = (pc = "ready")
             /\ pc = "ready" => t.templates = templates /\ l.lists = lists
    /\ pc = "ready" =>
          /\ get_prompt_template_names(templates) = NamesOfKind("str")
          /\ get_prompt_list_names(lists) = NamesOfKind("list")
    /\ res.op = "get_prompt_template_names" => res.ok /\ res.val = NamesOfKind("str")
    /\ res.op = "get_prompt_list_names" => res.ok /\ res.val = NamesOfKind("list")

\* one name is a template and a list under the same language code, and the
\* names were asked for
C12_Witness ==
    /\ pc = "ready"
    /\ \E n \in KeySet(templates) \cap KeySet(lists) :
          KeySet(Get(templates, n)) \cap KeySet(Get(lists, n)) # {}
    /\ Len(templates) >= 2
    /\ res.op = "get_prompt_template_names"

\* every item on a line of its own, each line starting with the bullet
RECURSIVE Bulleted(_, _)
Bulleted(items, i) ==
    IF i > Len(items) THEN << >>
    ELSE (IF i > 1 THEN <<"\n">> ELSE << >>)
             \o to_string_bullet \o ReplaceNewlines(items[i], 1) \o Bulleted(items, i + 1)

\* C13 (as stated): to_string() renders every item in order, each preceded by
\* the bullet " * ", the first included, and separated by a newline; the list
\* ["Be kind", "Be brief"] renders as " * Be kind\n * Be brief".
C13_AsStated ==
    (res.op = "to_string" /\ res.ok) =>
        LET l == get_prompt_list(lists, res.mode, res.name, res.lang).val IN
        /\ res.val = Bulleted(l.items, 1)
        /\ l.items = <<<<"Be", " ", "kind">>, <<"Be", " ", "brief">>>> =>
              res.val = <<" ", "*", " ", "Be", " ", "kind", "\n",
                          " ", "*", " ", "Be", " ", "brief">>

\* the generated class has exactly one method with this prefix for the name n
OneMethod(methods, prefix, n) ==
    Cardinality({i \in 1..Len(methods) : methods[i].prefix = prefix /\ methods[i].name = n}) = 1

MethodFor(methods, prefix, n) ==
    methods[CHOOSE i \in 1..Len(methods) : methods[i].prefix = prefix /\ methods[i].name = n]

NoRepeats(seq) == \A a, b \in 1..Len(seq) : a # b => seq[a] # seq[b]

\* C14: the generated class has exactly one create_<name> per template name,
\* taking exactly the template's canonical parameters as keyword-only
\* arguments, and exactly one get_list_<name> without arguments per list name;
\* a generated method called on a factory over the same directory, language
\* code and fallback mode gives the outcome, value or error, of the direct
\* render_prompt_template / get_prompt_list query with the same name, language
\* code and bindings.
C14_AccessorsMirrorQueries ==
    /\ pc = "ready" => (module = NoModule \/ module.written)
    /\ (pc = "ready" /\ module.written) =>
          /\ Len(module.methods) = Len(templates) + Len(lists)
          /\ \A n \in KeySet(templates) :
                /\ OneMethod(module.methods, "create_", n)
                /\ MethodFor(module.methods, "create_", n).keyword_only
                      = get_prompt_template_parameters(templates, n).val
                /\ NoRepeats(MethodFor(module.methods, "create_", n).keyword_only)
          /\ \A n \in KeySet(lists) :
                /\ OneMethod(module.methods, "get_list_", n)
                /\ MethodFor(module.methods, "get_list_", n).keyword_only = << >>
    /\ (pc = "ready" /\ res.op = "create_") =>
          [ok |-> res.ok, err |-> res.err, val |-> res.val]
              = render_prompt_template(templates, res.mode, res.name, res.lang, res.kwargs)
    /\ (pc = "ready" /\ res.op = "get_list_") =>
          [ok |-> res.ok, err |-> res.err, val |-> res.val]
              = get_prompt_list(lists, res.mode, res.name, res.lang)

\* create_greet(name=...) rendered the French variant for a factory with lang_code fr
C14_Witness ==
    /\ pc = "ready"
    /\ res.op = "create_"
    /\ res.name = "greet"
    /\ res.lang = FR
    /\ res.ok
    /\ res.val = <<"Bonjour", " ", "Alice">>
    /\ Len(Get(templates, "greet")) = 2

\* a generated list accessor failed as the direct query does
C14_WitnessListError ==
    /\ pc = "ready"
    /\ res.op = "get_list_"
    /\ ~res.ok
    /\ res.mode = "ANY"

TemplateQueries == {"get_prompt_template", "get_prompt_template_parameters", "render_prompt_template"}

ListQueries == {"get_prompt_list"}

UnregisteredName ==
    \/ res.op \in TemplateQueries /\ ~Has(templates, res.name)
    \/ res.op \in ListQueries /\ ~Has(lists, res.name)

\* C16 (as stated): a query for a name that is not registered fails, and the
\* error it raises is one a caller can tell apart from the error raised when
\* the name is registered and the language cannot be resolved: the two are not
\* the same exception.
C16_AsStated ==
    UnregisteredName =>
        /\ ~res.ok
        /\ res.err.kind = "EntityNotFound"
        /\ res.err.exc # LanguageNotFound.err.exc

\* C19: once the collection is constructed, no step changes the template
\* index, the list index or any container's language-to-item mapping; a query,
\* whatever its outcome and fallback path, leaves fallback_mode as it is, and
\* fallback_mode changes only by the caller's assignment of one of the modes,
\* which answers no query.
C19_ReadOnlyAfterConstruction ==
    [][pc = "ready" =>
          /\ pc' = "ready"
          /\ dir' = dir
          /\ templates' = templates
          /\ lists' = lists
          /\ loaderr' = loaderr
          /\ \/ fallback_mode' = fallback_mode
             \/ fallback_mode' \in LanguageFallbackMode /\ res' = res]_vars

\* after an assignment of ANY, a render for a language that is not registered
\* took the fallback path and the indices are still those loaded from the directory
C19_Witness ==
    /\ pc = "ready"
    /\ fallback_mode = "ANY"
    /\ res.op = "render_prompt_template"
    /\ res.mode = "ANY"
    /\ res.ok
    /\ ~Has(Get(templates, res.name), res.lang)
    /\ templates = _load_from_disc(dir).templates
    /\ lists = _load_from_disc(dir).lists

\* a query failed with LanguageNotFound and the indices are unchanged
C19_WitnessFailed ==
    /\ pc = "ready"
    /\ res.op = "get_prompt_list"
    /\ ~res.ok
    /\ Has(lists, res.name)
    /\ templates = _load_from_disc(dir).templates
    /\ lists = _load_from_disc(dir).lists

RegisteredName ==
    \/ res.op \in TemplateQueries /\ Has(templates, res.name)
    \/ res.op \in ListQueries /\ Has(lists, res.name)

\* every registered template name and list name has at least one language entry
NoEmptyEntity ==
    /\ \A i \in 1..Len(templates) : ContainerLen(templates[i].v) >= 1
    /\ \A i \in 1..Len(lists) : ContainerLen(lists[i].v) >= 1

\* C20 (as stated): in a constructed collection every registered template name
\* and list name has at least one language entry, so for a registered name
\* get_prompt_template_parameters never fails with UninitializedEntity and, with
\* fallback_mode ANY, no query fails to resolve a language.
C20_AsStated ==
    pc = "ready" =>
        /\ NoEmptyEntity
        /\ (res.op = "get_prompt_template_parameters" /\ RegisteredName) => res.ok
        /\ (res.op \in TemplateQueries \cup ListQueries /\ RegisteredName /\ res.mode = "ANY") =>
              res.err.kind # "LanguageNotFound"

====
